---- MODULE Spec2Model ----
(***************************************************************************)
(* Model of the cluster forms of internal/forms/cluster.go:                *)
(*   - CreateClusterForm.ToCluster (manual cluster creation), and          *)
(*   - ResolveClusterForm.ResolveIntegration / ResolveCluster (resolution  *)
(*     of a cluster candidate into an integration and a cluster).          *)
(* Strings are sequences of one-character strings, byte slices are         *)
(* sequences of byte values, so that []byte(s), base64 decoding and the    *)
(* base64 regular expression are computed rather than assumed.             *)
(***************************************************************************)
EXTENDS Integers, Sequences, FiniteSets, TLC

VARIABLES
    ccf,          \* the CreateClusterForm of a manual creation request (or Nil)
    ccfOut,       \* what ToCluster returned for it (or Nil while not called)
    candidates,   \* repo.Cluster: the cluster_candidates table, id -> candidate
    forms,        \* the ResolveClusterForm values, one per request (or Nil)
    kubeInts,     \* repo.KubeIntegration: persisted records, id = position
    oidcInts,     \* repo.OIDCIntegration
    gcpInts,      \* repo.GCPIntegration
    awsInts,      \* repo.AWSIntegration
    clusters,     \* repo.Cluster: persisted clusters, id = position
    last,         \* history: the last call made, its outcome, the state before it
    owner,        \* history: for each persisted cluster, the form that built it
    hist,         \* history: per form, what has happened on it so far
    createCalls,  \* history: every record handed to a Create*Integration call
    w,            \* the ValuesTemplateWriter of a Helm request (or Nil)
    agent,        \* w.Agent: the calls the Helm agent has received
    wout          \* what the last call on the writer returned

vars == <<ccf, ccfOut, candidates, forms, kubeInts, oidcInts, gcpInts, awsInts,
          clusters, owner, last, hist, createCalls, w, agent, wout>>

---------------------------------------------------------------------------
(* Bounds of the model *)

\* longest CertificateAuthorityData string given to CreateClusterForm
MaxStrLen == 4

\* most calls (ResolveIntegration or ResolveCluster) made on one form
MaxCalls == 3

\* the ResolveClusterForm values (requests) a behaviour can hold
NumForms == 2

---------------------------------------------------------------------------
(* Strings and bytes *)

\* a nil pointer
Nil == [nil |-> TRUE]

\* the characters strings are made of: two of the base64 alphabet, the
\* padding character, one outside the alphabet, and a newline
Chars == {"Q", "U", "=", "-", "\n"}

\* the character's byte value, as []byte(s) yields it
Ord(c) ==
    CASE c = "Q" -> 81
      [] c = "U" -> 85
      [] c = "=" -> 61
      [] c = "-" -> 45
      [] c = "\n" -> 10

\* []byte(s)
Bytes(s) == [i \in 1..Len(s) |-> Ord(s[i])]

\* membership of [A-Za-z0-9+/]
IsB64Char(c) == c \in {"Q", "U"}

\* the 6-bit value of a character of the base64 alphabet (A = 0 ... Z = 25)
B64Val(c) == IF c = "Q" THEN 16 ELSE 20

\* regexp ^([A-Za-z0-9+/]{4})*([A-Za-z0-9+/]{3}=|[A-Za-z0-9+/]{2}==)?$
RECURSIVE MatchString(_)
MatchString(s) ==
    IF Len(s) = 0 THEN TRUE
    ELSE IF Len(s) < 4 THEN FALSE
    ELSE LET full == \A i \in 1..4 : IsB64Char(s[i])
             pad1 == /\ \A i \in 1..3 : IsB64Char(s[i])
                     /\ s[4] = "="
             pad2 == /\ \A i \in 1..2 : IsB64Char(s[i])
                     /\ s[3] = "=" /\ s[4] = "="
         IN  \/ full /\ MatchString(SubSeq(s, 5, Len(s)))
             \/ (pad1 \/ pad2) /\ Len(s) = 4

\* the string without its '\r' and '\n' characters, which the decoder skips
StripNewlines(s) == SelectSeq(s, LAMBDA c : c # "\n")

\* the three bytes of a full quantum of four characters
Quantum(a, b, c, d) ==
    LET n == B64Val(a) * 262144 + B64Val(b) * 4096 + B64Val(c) * 64 + B64Val(d)
    IN  <<n \div 65536, (n \div 256) % 256, n % 256>>

\* base64.StdEncoding.DecodeString on a string without newlines:
\* [err |-> TRUE] or [err |-> FALSE, bytes |-> ...]
RECURSIVE DecodeQuanta(_)
DecodeQuanta(s) ==
    IF Len(s) = 0 THEN [err |-> FALSE, bytes |-> <<>>]
    ELSE IF Len(s) < 4 THEN [err |-> TRUE, bytes |-> <<>>]
    ELSE IF ~(IsB64Char(s[1]) /\ IsB64Char(s[2])) THEN [err |-> TRUE, bytes |-> <<>>]
    ELSE IF s[3] = "=" THEN
        IF s[4] = "=" /\ Len(s) = 4
        THEN [err |-> FALSE, bytes |-> SubSeq(Quantum(s[1], s[2], "Q", "Q"), 1, 1)]
        ELSE [err |-> TRUE, bytes |-> <<>>]
    ELSE IF ~IsB64Char(s[3]) THEN [err |-> TRUE, bytes |-> <<>>]
    ELSE IF s[4] = "=" THEN
        IF Len(s) = 4
        THEN [err |-> FALSE, bytes |-> SubSeq(Quantum(s[1], s[2], s[3], "Q"), 1, 2)]
        ELSE [err |-> TRUE, bytes |-> <<>>]
    ELSE IF ~IsB64Char(s[4]) THEN [err |-> TRUE, bytes |-> <<>>]
    ELSE LET rest == DecodeQuanta(SubSeq(s, 5, Len(s)))
         IN  IF rest.err THEN rest
             ELSE [err |-> FALSE,
                   bytes |-> Quantum(s[1], s[2], s[3], s[4]) \o rest.bytes]

\* base64.StdEncoding.DecodeString
DecodeString(s) == DecodeQuanta(StripNewlines(s))

\* every string of at most n characters
RECURSIVE StringsUpTo(_)
StringsUpTo(n) ==
    IF n = 0 THEN {<<>>}
    ELSE LET shorter == StringsUpTo(n - 1)
         IN  shorter \cup {Append(s, c) : s \in shorter, c \in Chars}

---------------------------------------------------------------------------
(* CreateClusterForm *)

\* the forms a manual creation request can carry
CreateClusterForms ==
    [GCPIntegrationID : {0, 1}, AWSIntegrationID : {0, 2},
     CertificateAuthorityData : StringsUpTo(MaxStrLen)]

\* CreateClusterForm.ToCluster: [err |-> TRUE] or the cluster
ToCluster(form) ==
    LET authMechanism ==
            IF form.GCPIntegrationID # 0 THEN "gcp"
            ELSE IF form.AWSIntegrationID # 0 THEN "aws"
            ELSE "none"
        matches == /\ form.CertificateAuthorityData # <<>>
                   /\ MatchString(form.CertificateAuthorityData)
        decoded == DecodeString(form.CertificateAuthorityData)
    IN  IF authMechanism = "none" THEN [err |-> TRUE]
        ELSE IF matches /\ decoded.err THEN [err |-> TRUE]
        ELSE [err |-> FALSE,
              AuthMechanism |-> authMechanism,
              KubeIntegrationID |-> 0,
              OIDCIntegrationID |-> 0,
              GCPIntegrationID |-> form.GCPIntegrationID,
              AWSIntegrationID |-> form.AWSIntegrationID,
              CertificateAuthorityData |->
                  IF matches THEN decoded.bytes ELSE <<>>]

---------------------------------------------------------------------------
(* Kubeconfig: the candidate's blob and its parsed form *)

\* map lookup m[k]: the zero value (a nil pointer) when the key is absent
Lookup(m, k) == IF k \in DOMAIN m THEN m[k] ELSE Nil

\* the map holding the entries of one kind of a kubeconfig blob, by name
Section(blob, kind) ==
    LET idx == {i \in 1..Len(blob) : blob[i].kind = kind}
    IN  [n \in {blob[i].name : i \in idx} |->
            blob[CHOOSE i \in idx : blob[i].name = n].body]

\* kubernetes.GetRawConfigFromBytes: an error for a blob that does not
\* parse, otherwise the api.Config of its entries; a blob without entries
\* gives the empty config and no error
GetRawConfigFromBytes(blob) ==
    IF \E i \in 1..Len(blob) : blob[i].kind = "garbage"
    THEN [err |-> TRUE]
    ELSE [err |-> FALSE,
          conf |-> [CurrentContext |->
                        IF \E i \in 1..Len(blob) : blob[i].kind = "current-context"
                        THEN blob[CHOOSE i \in 1..Len(blob) :
                                     blob[i].kind = "current-context"].name
                        ELSE "",
                    Contexts |-> Section(blob, "context"),
                    AuthInfos |-> Section(blob, "user"),
                    Clusters |-> Section(blob, "cluster")]]

---------------------------------------------------------------------------
(* Server URLs: strings of lexemes *)

\* the path and query lexemes of the server URLs
PathLexemes == {"/api"}
QueryLexemes == {"?x"}

\* url.Parse: [err |-> TRUE] for a string without "scheme://" (a first
\* path segment holding a colon), else scheme, host (with its port), path
\* and query
Parse(s) ==
    IF Len(s) < 3 \/ s[2] # "://" THEN [err |-> TRUE]
    ELSE LET rest == SubSeq(s, 3, Len(s))
             hostLen == IF Len(rest) >= 3 /\ rest[2] = ":" THEN 3 ELSE 1
             after == SubSeq(rest, hostLen + 1, Len(rest))
         IN  [err |-> FALSE,
              Scheme |-> s[1],
              Host |-> SubSeq(rest, 1, hostLen),
              Path |-> SelectSeq(after, LAMBDA t : t \in PathLexemes),
              RawQuery |-> SelectSeq(after, LAMBDA t : t \in QueryLexemes)]

\* URL.Port: the part of Host after the colon, "" without one
Port(u) == IF Len(u.Host) = 3 THEN <<u.Host[3]>> ELSE <<>>

\* URL.String
String(u) == <<u.Scheme, "://">> \o u.Host \o u.Path \o u.RawQuery

---------------------------------------------------------------------------
(* ResolveClusterForm: the resolvers *)

\* what a resolver does: it panics, returns an error, or hands a record to
\* the Create call of one integration table
Panic == [kind |-> "panic"]
Fail(msg) == [kind |-> "error", err |-> msg]
Create(table, rec) == [kind |-> "create", table |-> table, rec |-> rec]

\* the zero ints.KubeIntegration of a form
KubeIntegration(rcf, mechanism) ==
    [Mechanism |-> mechanism, UserID |-> rcf.UserID, ProjectID |-> rcf.ProjectID,
     Kubeconfig |-> <<>>, ClientCertificateData |-> <<>>, ClientKeyData |-> <<>>,
     Token |-> <<>>, Username |-> <<>>, Password |-> <<>>]

resolveX509(rcf, authInfo) ==
    IF authInfo = Nil THEN Panic
    ELSE
    LET cert == DecodeString(rcf.Resolver.ClientCertData)
        key == DecodeString(rcf.Resolver.ClientKeyData)
        ki == [KubeIntegration(rcf, "x509") EXCEPT
                  !.ClientCertificateData =
                      IF rcf.Resolver.ClientCertData # <<>> THEN cert.bytes
                      ELSE authInfo.ClientCertificateData,
                  !.ClientKeyData =
                      IF rcf.Resolver.ClientKeyData # <<>> THEN key.bytes
                      ELSE authInfo.ClientKeyData]
    IN  IF rcf.Resolver.ClientCertData # <<>> /\ cert.err THEN Fail("base64")
        ELSE IF rcf.Resolver.ClientKeyData # <<>> /\ key.err THEN Fail("base64")
        ELSE IF Len(ki.ClientCertificateData) = 0 \/ Len(ki.ClientKeyData) = 0
        THEN Fail("could not resolve kube integration (x509)")
        ELSE Create("kube", ki)

resolveToken(rcf, authInfo) ==
    IF authInfo = Nil THEN Panic
    ELSE
    LET ki == [KubeIntegration(rcf, "bearer") EXCEPT
                  !.Token = IF rcf.Resolver.TokenData # <<>>
                            THEN Bytes(rcf.Resolver.TokenData)
                            ELSE Bytes(authInfo.Token)]
    IN  IF Len(ki.Token) = 0
        THEN Fail("could not resolve kube integration (token)")
        ELSE Create("kube", ki)

resolveBasic(rcf, authInfo) ==
    IF authInfo = Nil THEN Panic
    ELSE
    LET ki == [KubeIntegration(rcf, "basic") EXCEPT
                  !.Username = Bytes(authInfo.Username),
                  !.Password = Bytes(authInfo.Password)]
    IN  IF Len(ki.Username) = 0 \/ Len(ki.Password) = 0
        THEN Fail("could not resolve kube integration (basic)")
        ELSE Create("kube", ki)

resolveLocal(rcf, authInfo) ==
    Create("kube", [KubeIntegration(rcf, "local") EXCEPT
                       !.Kubeconfig = rcf.ClusterCandidate.Kubeconfig])

\* the keys resolveOIDC reads from the auth provider's config
OIDCKeys == [IssuerURL |-> "idp-issuer-url", ClientID |-> "client-id",
             ClientSecret |-> "client-secret",
             CertificateAuthorityData |-> "idp-certificate-authority-data",
             IDToken |-> "id-token", RefreshToken |-> "refresh-token"]

\* []byte(config[key]) when the key is present, the zero value otherwise
ConfigBytes(config, key) == IF key \in DOMAIN config THEN Bytes(config[key]) ELSE <<>>

\* resolveOIDC decoding its CA override as the other resolvers decode theirs
resolveOIDC_DecodeOverride(rcf, authInfo) ==
    IF authInfo = Nil THEN Panic
    ELSE IF authInfo.AuthProvider = Nil THEN Panic
    ELSE
    LET config == authInfo.AuthProvider.Config
        override == rcf.Resolver.OIDCIssuerCAData
    IN  Create("oidc",
               [Client |-> "kube", UserID |-> rcf.UserID, ProjectID |-> rcf.ProjectID,
                IssuerURL |-> ConfigBytes(config, OIDCKeys.IssuerURL),
                ClientID |-> ConfigBytes(config, OIDCKeys.ClientID),
                ClientSecret |-> ConfigBytes(config, OIDCKeys.ClientSecret),
                CertificateAuthorityData |->
                    IF override = <<>>
                    THEN ConfigBytes(config, OIDCKeys.CertificateAuthorityData)
                    ELSE IF MatchString(override) THEN DecodeString(override).bytes
                    ELSE Bytes(override),
                IDToken |-> ConfigBytes(config, OIDCKeys.IDToken),
                RefreshToken |-> ConfigBytes(config, OIDCKeys.RefreshToken)])

resolveOIDC(rcf, authInfo) ==
    IF authInfo = Nil THEN Panic
    ELSE IF authInfo.AuthProvider = Nil THEN Panic
    ELSE
    LET config == authInfo.AuthProvider.Config
        fromConfig == [fld \in DOMAIN OIDCKeys |-> ConfigBytes(config, OIDCKeys[fld])]
        oidc == [Client |-> "kube", UserID |-> rcf.UserID, ProjectID |-> rcf.ProjectID,
                 IssuerURL |-> fromConfig.IssuerURL,
                 ClientID |-> fromConfig.ClientID,
                 ClientSecret |-> fromConfig.ClientSecret,
                 CertificateAuthorityData |->
                     IF rcf.Resolver.OIDCIssuerCAData # <<>>
                     THEN Bytes(rcf.Resolver.OIDCIssuerCAData)
                     ELSE fromConfig.CertificateAuthorityData,
                 IDToken |-> fromConfig.IDToken,
                 RefreshToken |-> fromConfig.RefreshToken]
    IN  Create("oidc", oidc)

\* resolveGCP without its check of the key data
resolveGCP_NoCheck(rcf, authInfo) ==
    Create("gcp", [UserID |-> rcf.UserID, ProjectID |-> rcf.ProjectID,
                   GCPKeyData |-> Bytes(rcf.Resolver.GCPKeyData)])

resolveGCP(rcf, authInfo) ==
    LET gcp == [UserID |-> rcf.UserID, ProjectID |-> rcf.ProjectID,
                GCPKeyData |-> Bytes(rcf.Resolver.GCPKeyData)]
    IN  IF Len(gcp.GCPKeyData) = 0 THEN Fail("could not resolve gcp integration")
        ELSE Create("gcp", gcp)

\* resolveAWS with a check that leaves out the secret access key
resolveAWS_NoSecretCheck(rcf, authInfo) ==
    LET aws == [UserID |-> rcf.UserID, ProjectID |-> rcf.ProjectID,
                AWSClusterID |-> Bytes(rcf.Resolver.AWSClusterID),
                AWSAccessKeyID |-> Bytes(rcf.Resolver.AWSAccessKeyID),
                AWSSecretAccessKey |-> Bytes(rcf.Resolver.AWSSecretAccessKey)]
    IN  IF Len(aws.AWSClusterID) = 0 \/ Len(aws.AWSAccessKeyID) = 0
        THEN Fail("could not resolve aws integration")
        ELSE Create("aws", aws)

resolveAWS(rcf, authInfo) ==
    LET aws == [UserID |-> rcf.UserID, ProjectID |-> rcf.ProjectID,
                AWSClusterID |-> Bytes(rcf.Resolver.AWSClusterID),
                AWSAccessKeyID |-> Bytes(rcf.Resolver.AWSAccessKeyID),
                AWSSecretAccessKey |-> Bytes(rcf.Resolver.AWSSecretAccessKey)]
    IN  IF \/ Len(aws.AWSClusterID) = 0
           \/ Len(aws.AWSAccessKeyID) = 0
           \/ Len(aws.AWSSecretAccessKey) = 0
        THEN Fail("could not resolve aws integration")
        ELSE Create("aws", aws)

\* the switch of ResolveIntegration over the candidate's mechanism; a
\* mechanism matching no case leaves id = 0 and err = nil
Dispatch(rcf, authInfo) ==
    LET mech == rcf.ClusterCandidate.AuthMechanism
    IN  CASE mech = "x509" -> resolveX509(rcf, authInfo)
          [] mech = "bearer" -> resolveToken(rcf, authInfo)
          [] mech = "basic" -> resolveBasic(rcf, authInfo)
          [] mech = "local" -> resolveLocal(rcf, authInfo)
          [] mech = "oidc" -> resolveOIDC(rcf, authInfo)
          [] mech = "gcp" -> resolveGCP(rcf, authInfo)
          [] mech = "aws" -> resolveAWS(rcf, authInfo)
          [] OTHER -> [kind |-> "none"]

---------------------------------------------------------------------------
(* ResolveClusterForm: ResolveIntegration and ResolveCluster *)

\* ResolveIntegration up to the persistence call, given that the candidate
\* was read: the form with the fields assigned on the way, and what the
\* call does next (a panic, an error, nothing, or a Create call)
ResolveIntegrationPlan(rcf, cc) ==
    LET rcf1 == [rcf EXCEPT !.ClusterCandidate = cc]
        parsed == GetRawConfigFromBytes(cc.Kubeconfig)
        rcf2 == [rcf1 EXCEPT !.RawConf = parsed.conf]
        context == Lookup(parsed.conf.Contexts, parsed.conf.CurrentContext)
        authInfo == Lookup(parsed.conf.AuthInfos, context.AuthInfo)
    IN  IF parsed.err THEN [form |-> rcf1, res |-> Fail("kubeconfig")]
        ELSE IF context = Nil THEN [form |-> rcf2, res |-> Panic]
        ELSE [form |-> rcf2, res |-> Dispatch(rcf2, authInfo)]

\* OverrideHost without the branch that keeps the port
OverrideHost_DropPort(u, hostname) == [u EXCEPT !.Host = hostname]

\* the server URL with its host replaced by the hostname override
OverrideHost(u, hostname) ==
    IF Port(u) = <<>> THEN [u EXCEPT !.Host = hostname]
    ELSE [u EXCEPT !.Host = hostname \o <<":">> \o Port(u)]

\* IntegrationSlots taking the identifier last inserted into the table
\* rather than the one kept in the form
IntegrationSlots_LastInserted(mech, id) ==
    [KubeIntegrationID |->
        IF mech \in {"x509", "bearer", "basic", "local"} THEN Len(kubeInts) ELSE 0,
     OIDCIntegrationID |-> IF mech = "oidc" THEN Len(oidcInts) ELSE 0,
     GCPIntegrationID |-> IF mech = "gcp" THEN Len(gcpInts) ELSE 0,
     AWSIntegrationID |-> IF mech = "aws" THEN Len(awsInts) ELSE 0]

\* the credential-reference slots of a cluster built for a mechanism
IntegrationSlots(mech, id) ==
    [KubeIntegrationID |-> IF mech \in {"x509", "bearer", "basic", "local"} THEN id ELSE 0,
     OIDCIntegrationID |-> IF mech = "oidc" THEN id ELSE 0,
     GCPIntegrationID |-> IF mech = "gcp" THEN id ELSE 0,
     AWSIntegrationID |-> IF mech = "aws" THEN id ELSE 0]

\* ClusterCA that skips an override that does not decode and keeps the
\* kubeconfig cluster's data
ClusterCA_SkipDecodeError(rcf, kcCluster) ==
    LET decoded == DecodeString(rcf.Resolver.ClusterCAData)
    IN  IF rcf.Resolver.ClusterCAData = <<>> \/ decoded.err
        THEN [err |-> FALSE, bytes |-> kcCluster.CertificateAuthorityData]
        ELSE [err |-> FALSE, bytes |-> decoded.bytes]

\* the certificate authority data of the built cluster: the kubeconfig
\* cluster's, or the decoded ClusterCAData override; err when it does not decode
ClusterCA(rcf, kcCluster) ==
    LET decoded == DecodeString(rcf.Resolver.ClusterCAData)
    IN  IF rcf.Resolver.ClusterCAData = <<>>
        THEN [err |-> FALSE, bytes |-> kcCluster.CertificateAuthorityData]
        ELSE IF decoded.err THEN [err |-> TRUE, bytes |-> <<>>]
        ELSE [err |-> FALSE, bytes |-> decoded.bytes]

\* buildCluster: a panic, an error, or [kind |-> "ok", cluster |-> ...]
buildCluster(rcf) ==
    IF rcf.RawConf = Nil THEN Panic
    ELSE
    LET rawConf == rcf.RawConf
        kcContext == Lookup(rawConf.Contexts, rawConf.CurrentContext)
        kcAuthInfo == Lookup(rawConf.AuthInfos, kcContext.AuthInfo)
        kcCluster == Lookup(rawConf.Clusters, kcContext.Cluster)
        cc == rcf.ClusterCandidate
        ca == ClusterCA(rcf, kcCluster)
        serverURL == Parse(cc.Server)
        slots == IntegrationSlots(cc.AuthMechanism, rcf.IntegrationID)
    IN  IF kcContext = Nil THEN Panic
        ELSE IF kcCluster = Nil \/ kcAuthInfo = Nil THEN Panic
        ELSE IF ca.err THEN Fail("base64")
        ELSE IF rcf.Resolver.ClusterHostname # <<>> /\ serverURL.err THEN Fail("url")
        ELSE [kind |-> "ok",
              cluster |->
                [AuthMechanism |-> cc.AuthMechanism,
                 ProjectID |-> cc.ProjectID,
                 Name |-> cc.Name,
                 Server |-> IF rcf.Resolver.ClusterHostname # <<>>
                            THEN String(OverrideHost(serverURL, rcf.Resolver.ClusterHostname))
                            ELSE cc.Server,
                 CertificateAuthorityData |-> ca.bytes,
                 KubeIntegrationID |-> slots.KubeIntegrationID,
                 OIDCIntegrationID |-> slots.OIDCIntegrationID,
                 GCPIntegrationID |-> slots.GCPIntegrationID,
                 AWSIntegrationID |-> slots.AWSIntegrationID]]

FormIds == 1..NumForms

\* the integration table of a name
Table(name) ==
    CASE name = "kube" -> kubeInts
      [] name = "oidc" -> oidcInts
      [] name = "gcp" -> gcpInts
      [] name = "aws" -> awsInts

\* what the history keeps of the state before a call
Snapshot(f) ==
    [IntegrationID |-> forms[f].IntegrationID,
     kube |-> Len(kubeInts), oidc |-> Len(oidcInts), gcp |-> Len(gcpInts),
     aws |-> Len(awsInts), clusters |-> Len(clusters)]

\* the history of a call on form f
Called(f, op, outcome, table, id, dbOK) ==
    /\ last' = [form |-> f, op |-> op, outcome |-> outcome, dbOK |-> dbOK,
                pre |-> Snapshot(f)]
    /\ hist' = [hist EXCEPT ![f] =
                  [calls |-> @.calls + 1,
                   panicked |-> outcome = "panic",
                   resolvedOK |-> @.resolvedOK \/ (op = "ResolveIntegration" /\ outcome = "ok"),
                   built |-> @.built \/ (op = "ResolveCluster" /\ table = "built"),
                   created |-> IF id # 0 THEN @.created \cup {<<table, id>>} ELSE @.created]]

\* a call can be made on form f
Callable(f) ==
    /\ forms[f] # Nil
    /\ ~hist[f].panicked
    /\ hist[f].calls < MaxCalls

\* rcf.ResolveIntegration(repo); readOK and writeOK say whether the
\* repository's read and write succeed
ResolveIntegration(f, readOK, writeOK) ==
    /\ Callable(f)
    /\ UNCHANGED <<ccf, ccfOut, candidates, clusters, owner, w, agent, wout>>
    /\ IF ~readOK \/ forms[f].ClusterCandidateID \notin DOMAIN candidates
       THEN /\ Called(f, "ResolveIntegration", "error", "", 0, FALSE)
            /\ UNCHANGED <<forms, kubeInts, oidcInts, gcpInts, awsInts, createCalls>>
       ELSE
       LET plan == ResolveIntegrationPlan(forms[f], candidates[forms[f].ClusterCandidateID])
           res == plan.res
           id == Len(Table(res.table)) + 1
       IN  CASE res.kind = "panic" ->
                  /\ forms' = [forms EXCEPT ![f] = plan.form]
                  /\ Called(f, "ResolveIntegration", "panic", "", 0, TRUE)
                  /\ UNCHANGED <<kubeInts, oidcInts, gcpInts, awsInts, createCalls>>
             [] res.kind = "error" ->
                  /\ forms' = [forms EXCEPT ![f] = plan.form]
                  /\ Called(f, "ResolveIntegration", "error", "", 0, TRUE)
                  /\ UNCHANGED <<kubeInts, oidcInts, gcpInts, awsInts, createCalls>>
             [] res.kind = "none" ->
                  /\ forms' = [forms EXCEPT ![f] = [plan.form EXCEPT !.IntegrationID = 0]]
                  /\ Called(f, "ResolveIntegration", "ok", "", 0, TRUE)
                  /\ UNCHANGED <<kubeInts, oidcInts, gcpInts, awsInts, createCalls>>
             [] res.kind = "create" /\ ~writeOK ->
                  /\ forms' = [forms EXCEPT ![f] = plan.form]
                  /\ createCalls' = createCalls \cup {[table |-> res.table, rec |-> res.rec]}
                  /\ Called(f, "ResolveIntegration", "error", "", 0, FALSE)
                  /\ UNCHANGED <<kubeInts, oidcInts, gcpInts, awsInts>>
             [] res.kind = "create" /\ writeOK ->
                  /\ forms' = [forms EXCEPT ![f] = [plan.form EXCEPT !.IntegrationID = id]]
                  /\ createCalls' = createCalls \cup {[table |-> res.table, rec |-> res.rec]}
                  /\ kubeInts' = IF res.table = "kube" THEN Append(kubeInts, res.rec) ELSE kubeInts
                  /\ oidcInts' = IF res.table = "oidc" THEN Append(oidcInts, res.rec) ELSE oidcInts
                  /\ gcpInts' = IF res.table = "gcp" THEN Append(gcpInts, res.rec) ELSE gcpInts
                  /\ awsInts' = IF res.table = "aws" THEN Append(awsInts, res.rec) ELSE awsInts
                  /\ Called(f, "ResolveIntegration", "ok", res.table, id, TRUE)

\* ResolveCluster rolling the resolution back when it fails: the
\* credential record last persisted is deleted
ResolveCluster_Rollback(f, writeOK) ==
    /\ Callable(f)
    /\ UNCHANGED <<ccf, ccfOut, candidates, forms, createCalls, w, agent, wout>>
    /\ LET b == buildCluster(forms[f])
           failed == b.kind = "error" \/ (b.kind = "ok" /\ ~writeOK)
           rolledBack(table) ==
               IF failed /\ Len(table) > 0 THEN SubSeq(table, 1, Len(table) - 1)
               ELSE table
       IN  /\ kubeInts' = rolledBack(kubeInts)
           /\ oidcInts' = rolledBack(oidcInts)
           /\ gcpInts' = rolledBack(gcpInts)
           /\ awsInts' = rolledBack(awsInts)
           /\ CASE b.kind = "panic" ->
                  /\ Called(f, "ResolveCluster", "panic", "", 0, TRUE)
                  /\ UNCHANGED <<clusters, owner>>
             [] b.kind = "error" ->
                  /\ Called(f, "ResolveCluster", "error", "", 0, TRUE)
                  /\ UNCHANGED <<clusters, owner>>
             [] b.kind = "ok" /\ ~writeOK ->
                  /\ Called(f, "ResolveCluster", "error", "built", 0, FALSE)
                  /\ UNCHANGED <<clusters, owner>>
             [] b.kind = "ok" /\ writeOK ->
                  /\ clusters' = Append(clusters, b.cluster)
                  /\ owner' = Append(owner, f)
                  /\ Called(f, "ResolveCluster", "ok", "built", 0, TRUE)

\* rcf.ResolveCluster(repo)
ResolveCluster(f, writeOK) ==
    /\ Callable(f)
    /\ UNCHANGED <<ccf, ccfOut, candidates, forms, kubeInts, oidcInts, gcpInts,
                   awsInts, createCalls, w, agent, wout>>
    /\ LET b == buildCluster(forms[f])
       IN  CASE b.kind = "panic" ->
                  /\ Called(f, "ResolveCluster", "panic", "", 0, TRUE)
                  /\ UNCHANGED <<clusters, owner>>
             [] b.kind = "error" ->
                  /\ Called(f, "ResolveCluster", "error", "", 0, TRUE)
                  /\ UNCHANGED <<clusters, owner>>
             [] b.kind = "ok" /\ ~writeOK ->
                  /\ Called(f, "ResolveCluster", "error", "built", 0, FALSE)
                  /\ UNCHANGED <<clusters, owner>>
             [] b.kind = "ok" /\ writeOK ->
                  /\ clusters' = Append(clusters, b.cluster)
                  /\ owner' = Append(owner, f)
                  /\ Called(f, "ResolveCluster", "ok", "built", 0, TRUE)

\* ccf.ToCluster()
ToClusterStep ==
    /\ ccf # Nil
    /\ ccfOut = Nil
    /\ ccfOut' = ToCluster(ccf)
    /\ UNCHANGED <<ccf, candidates, forms, kubeInts, oidcInts, gcpInts, awsInts,
                   clusters, owner, last, hist, createCalls, w, agent, wout>>

---------------------------------------------------------------------------
(* The Helm values writer *)

\* what a call on the writer returned: the values or the error, with the
\* agent's calls as they were before it
Returned(op, err, vals) ==
    wout' = [calls |-> wout.calls + 1, op |-> op, err |-> err, vals |-> vals,
             pre |-> agent]

\* w.Agent receives a call
Received(call) == agent' = Append(agent, call)

WriterCallable == w # Nil /\ wout.calls < MaxCalls

\* w.Transform()
Transform ==
    /\ WriterCallable
    /\ Returned("Transform", "", Nil)
    /\ UNCHANGED <<ccf, ccfOut, candidates, forms, kubeInts, oidcInts, gcpInts,
                   awsInts, clusters, owner, last, hist, createCalls, w, agent>>

\* w.Create(vals); agentOK: whether Agent.InstallChart succeeds
WriterCreate(vals, agentOK) ==
    /\ WriterCallable
    /\ IF w.Chart = Nil
       THEN /\ Returned("Create", "chart must be set", Nil)
            /\ UNCHANGED agent
       ELSE /\ Received([op |-> "InstallChart", Chart |-> w.Chart,
                         Name |-> w.ReleaseName, Namespace |-> w.Namespace,
                         Values |-> vals])
            /\ IF agentOK THEN Returned("Create", "", vals)
               ELSE Returned("Create", "install failed", Nil)
    /\ UNCHANGED <<ccf, ccfOut, candidates, forms, kubeInts, oidcInts, gcpInts,
                   awsInts, clusters, owner, last, hist, createCalls, w>>

\* w.Update(vals); agentOK: whether Agent.UpgradeReleaseByValues succeeds
WriterUpdate(vals, agentOK) ==
    /\ WriterCallable
    /\ IF w.ReleaseName # <<>>
       THEN /\ Returned("Update", "release not set", Nil)
            /\ UNCHANGED agent
       ELSE /\ Received([op |-> "UpgradeReleaseByValues", Name |-> w.ReleaseName,
                         Values |-> vals])
            /\ IF agentOK THEN Returned("Update", "", vals)
               ELSE Returned("Update", "upgrade failed", Nil)
    /\ UNCHANGED <<ccf, ccfOut, candidates, forms, kubeInts, oidcInts, gcpInts,
                   awsInts, clusters, owner, last, hist, createCalls, w>>

---------------------------------------------------------------------------
(* The requests a behaviour starts from *)

Mechanisms == {"x509", "bearer", "basic", "local", "oidc", "gcp", "aws"}

\* the strings given as base64 overrides: none, base64 text, text that is
\* not base64, a lone newline
B64Inputs == {<<>>, <<"Q", "U", "Q", "U">>, <<"-", "Q">>, <<"\n">>}

\* the strings given as plain overrides and raw fields: none, or a value
PlainInputs == {<<>>, <<"U", "-">>}
RawInputs == {<<>>, <<"Q">>}

NoAuth ==
    [ClientCertificateData |-> <<>>, ClientKeyData |-> <<>>, Token |-> <<>>,
     Username |-> <<>>, Password |-> <<>>, AuthProvider |-> Nil]

\* the value a provider config holds under each key, one per key; the CA
\* is base64 text
OIDCValues == [IssuerURL |-> <<"Q">>, ClientID |-> <<"U">>,
               ClientSecret |-> <<"Q", "Q">>,
               CertificateAuthorityData |-> <<"U", "Q", "U", "Q">>,
               IDToken |-> <<"U", "Q">>, RefreshToken |-> <<"U", "U">>]

\* a provider config holding the keys of the given fields
ProviderConfig(flds) ==
    [Config |-> [k \in {OIDCKeys[fld] : fld \in flds} |->
                    OIDCValues[CHOOSE fld \in flds : OIDCKeys[fld] = k]]]

\* the provider configs of an OIDC user: none, empty, the CA alone, all keys
ProviderConfigs ==
    {Nil, ProviderConfig({}), ProviderConfig({"CertificateAuthorityData"}),
     ProviderConfig(DOMAIN OIDCKeys)}

\* the raw auth fields a candidate of a mechanism can carry
AuthInfosFor(mech) ==
    CASE mech = "x509" ->
            {[NoAuth EXCEPT !.ClientCertificateData = c, !.ClientKeyData = k] :
                c \in {<<>>, <<1, 2>>}, k \in {<<>>, <<3>>}}
      [] mech = "bearer" -> {[NoAuth EXCEPT !.Token = t] : t \in RawInputs}
      [] mech = "basic" ->
            {[NoAuth EXCEPT !.Username = u, !.Password = p] :
                u \in RawInputs, p \in RawInputs}
      [] mech = "oidc" -> {[NoAuth EXCEPT !.AuthProvider = a] : a \in ProviderConfigs}
      [] OTHER -> {NoAuth}

NoOverrides ==
    [ClientCertData |-> <<>>, ClientKeyData |-> <<>>, TokenData |-> <<>>,
     OIDCIssuerCAData |-> <<>>, GCPKeyData |-> <<>>, AWSClusterID |-> <<>>,
     AWSAccessKeyID |-> <<>>, AWSSecretAccessKey |-> <<>>,
     ClusterCAData |-> <<>>, ClusterHostname |-> <<>>]

\* the credential overrides an operator gives for a candidate of a mechanism
CredentialOverridesFor(mech) ==
    CASE mech = "x509" ->
            {[NoOverrides EXCEPT !.ClientCertData = c, !.ClientKeyData = k] :
                c \in B64Inputs \ {<<"\n">>}, k \in B64Inputs \ {<<"\n">>}}
      [] mech = "bearer" -> {[NoOverrides EXCEPT !.TokenData = t] : t \in PlainInputs}
      [] mech = "oidc" ->
            {[NoOverrides EXCEPT !.OIDCIssuerCAData = t] :
                t \in PlainInputs \cup {<<"Q", "U", "Q", "U">>}}
      [] mech = "gcp" -> {[NoOverrides EXCEPT !.GCPKeyData = t] : t \in PlainInputs}
      [] mech = "aws" ->
            {[NoOverrides EXCEPT !.AWSClusterID = c, !.AWSAccessKeyID = a,
                                 !.AWSSecretAccessKey = k] :
                c \in PlainInputs, a \in PlainInputs, k \in PlainInputs}
      [] OTHER -> {NoOverrides}

\* the server URLs of a candidate: with and without a port, with a path
\* and a query, and one url.Parse rejects
Servers ==
    {<<"https", "://", "old", ":", "6443">>,
     <<"https", "://", "old">>,
     <<"https", "://", "old", ":", "6443", "/api", "?x">>,
     <<"https", "://", "old", "/api">>,
     <<"10.0.0.1", ":", "6443">>}

Hostnames == {<<>>, <<"new">>}

\* the kubeconfig blobs: complete, or lacking the context, the user or the
\* cluster, or empty, or unparsable
Shapes == {"full", "noContexts", "noUsers", "noClusters", "empty", "garbage"}

Kubeconfig(shape, auth, ca) ==
    LET entry(kind, name, body) == [kind |-> kind, name |-> name, body |-> body]
        current == <<entry("current-context", "default", Nil)>>
        context == <<entry("context", "default", [Cluster |-> "c", AuthInfo |-> "u"])>>
        user == <<entry("user", "u", auth)>>
        cluster == <<entry("cluster", "c", [CertificateAuthorityData |-> ca])>>
    IN  CASE shape = "full" -> current \o context \o user \o cluster
          [] shape = "noContexts" -> current \o user \o cluster
          [] shape = "noUsers" -> current \o context \o cluster
          [] shape = "noClusters" -> current \o context \o user
          [] shape = "empty" -> <<>>
          [] shape = "garbage" -> <<entry("garbage", "", Nil)>>

\* the inputs of buildCluster's overrides are varied for the complete
\* kubeconfig; with any other blob buildCluster stops before reading them
ServersFor(shape) == IF shape = "full" THEN Servers ELSE {<<"https", "://", "old">>}
RawCAsFor(shape) == IF shape = "full" THEN {<<>>, <<7, 8>>} ELSE {<<7, 8>>}
CADataFor(shape) == IF shape = "full" THEN B64Inputs ELSE {<<>>, <<"-", "Q">>}
HostnamesFor(shape) == IF shape = "full" THEN Hostnames ELSE {<<"new">>}

NoHistory == [calls |-> 0, panicked |-> FALSE, resolvedOK |-> FALSE,
              built |-> FALSE, created |-> {}]

NoCall == [form |-> 0, op |-> "none", outcome |-> "none", dbOK |-> TRUE, pre |-> Nil]

EmptyRepo ==
    /\ kubeInts = <<>> /\ oidcInts = <<>> /\ gcpInts = <<>> /\ awsInts = <<>>
    /\ clusters = <<>> /\ owner = <<>>
    /\ createCalls = {}
    /\ last = NoCall
    /\ hist = [f \in FormIds |-> NoHistory]

\* the writer before any call on it
NoReturn == [calls |-> 0, op |-> "none", err |-> "", vals |-> Nil, pre |-> <<>>]

\* no Helm request
NoWriter ==
    /\ w = Nil
    /\ agent = <<>>
    /\ wout = NoReturn

\* a new ResolveClusterForm for candidate 1
NewForm(f, resolver) ==
    [Resolver |-> resolver, ClusterCandidateID |-> 1, ProjectID |-> 1, UserID |-> f,
     IntegrationID |-> 0, ClusterCandidate |-> Nil, RawConf |-> Nil]

\* a manual creation request
InitCreate ==
    /\ ccf \in CreateClusterForms
    /\ ccfOut = Nil
    /\ candidates = <<>>
    /\ forms = [f \in FormIds |-> Nil]
    /\ EmptyRepo
    /\ NoWriter

\* a resolution request: one candidate in the repository, one form for it
InitResolve ==
    /\ ccf = Nil
    /\ ccfOut = Nil
    /\ EmptyRepo
    /\ NoWriter
    /\ \E mech \in Mechanisms \cup {"unknown"}, shape \in Shapes :
          \E auth \in AuthInfosFor(mech), cred \in CredentialOverridesFor(mech),
             server \in ServersFor(shape), ca \in RawCAsFor(shape),
             caData \in CADataFor(shape), hostname \in HostnamesFor(shape) :
             /\ candidates =
                  <<[AuthMechanism |-> mech, ProjectID |-> 1, Name |-> "cluster-test",
                     Server |-> server, Kubeconfig |-> Kubeconfig(shape, auth, ca)]>>
             /\ forms = [f \in FormIds |->
                           IF f = 1
                           THEN NewForm(f, [cred EXCEPT !.ClusterCAData = caData,
                                                        !.ClusterHostname = hostname])
                           ELSE Nil]

\* the writers: with and without a chart, with and without a release name
Writers ==
    [Chart : {Nil, [Name |-> "chart-test"]}, ReleaseName : {<<>>, <<"Q">>},
     Namespace : {"default"}]

\* the values given to a writer
Values == {[k \in {} |-> 0], [k \in {"replicas"} |-> 2]}

\* a Helm request
InitWriter ==
    /\ ccf = Nil
    /\ ccfOut = Nil
    /\ candidates = <<>>
    /\ forms = [f \in FormIds |-> Nil]
    /\ EmptyRepo
    /\ w \in Writers
    /\ agent = <<>>
    /\ wout = NoReturn

Init == InitCreate \/ InitResolve \/ InitWriter

Next ==
    \/ ToClusterStep
    \/ Transform
    \/ \E vals \in Values, agentOK \in BOOLEAN : WriterCreate(vals, agentOK)
    \/ \E vals \in Values, agentOK \in BOOLEAN : WriterUpdate(vals, agentOK)
    \/ \E f \in FormIds, readOK \in BOOLEAN, writeOK \in BOOLEAN :
          ResolveIntegration(f, readOK, writeOK)
    \/ \E f \in FormIds, writeOK \in BOOLEAN : ResolveCluster(f, writeOK)

Spec == Init /\ [][Next]_vars

\* two resolution requests for the same candidate, each with its own form
\* and overrides
InitTwo ==
    /\ ccf = Nil
    /\ ccfOut = Nil
    /\ EmptyRepo
    /\ NoWriter
    /\ \E mech \in {"bearer", "gcp"} :
          \E auth \in AuthInfosFor(mech),
             cred1 \in CredentialOverridesFor(mech),
             cred2 \in CredentialOverridesFor(mech) :
             /\ candidates =
                  <<[AuthMechanism |-> mech, ProjectID |-> 1, Name |-> "cluster-test",
                     Server |-> <<"https", "://", "old">>,
                     Kubeconfig |-> Kubeconfig("full", auth, <<7, 8>>)]>>
             /\ forms = [f \in FormIds |->
                           IF f = 1 THEN NewForm(f, cred1)
                           ELSE IF f = 2 THEN NewForm(f, cred2)
                           ELSE Nil]

NextTwo ==
    \/ \E f \in FormIds, readOK \in BOOLEAN, writeOK \in BOOLEAN :
          ResolveIntegration(f, readOK, writeOK)
    \/ \E f \in FormIds, writeOK \in BOOLEAN : ResolveCluster(f, writeOK)

SpecTwo == InitTwo /\ [][NextTwo]_vars

---------------------------------------------------------------------------
(* Vocabulary of the properties *)

\* the last call was op, made on a form of a candidate of mechanism mech
LastCall(op) == last.op = op
LastForm == forms[last.form]
LastCandidate == candidates[LastForm.ClusterCandidateID]

\* the credential-reference slots of a cluster
SlotNames == {"KubeIntegrationID", "OIDCIntegrationID", "GCPIntegrationID",
              "AWSIntegrationID"}

\* the slot in which a cluster references a record of an integration table
SlotOfTable(table) ==
    CASE table = "kube" -> "KubeIntegrationID"
      [] table = "oidc" -> "OIDCIntegrationID"
      [] table = "gcp" -> "GCPIntegrationID"
      [] table = "aws" -> "AWSIntegrationID"

\* the slot that corresponds to a mechanism
SlotOfMechanism(mech) ==
    CASE mech \in {"x509", "bearer", "basic", "local"} -> "KubeIntegrationID"
      [] mech = "oidc" -> "OIDCIntegrationID"
      [] mech = "gcp" -> "GCPIntegrationID"
      [] mech = "aws" -> "AWSIntegrationID"
      [] OTHER -> "none"

\* the integration tables are as they were before the last call
IntegrationsUnchanged ==
    /\ Len(kubeInts) = last.pre.kube /\ Len(oidcInts) = last.pre.oidc
    /\ Len(gcpInts) = last.pre.gcp /\ Len(awsInts) = last.pre.aws

\* the kubeconfig of the last call's candidate names a context, and that
\* context a user and a cluster, that the kubeconfig holds
HasContext(conf) == conf.CurrentContext \in DOMAIN conf.Contexts
HasEntries(conf) ==
    /\ HasContext(conf)
    /\ conf.Contexts[conf.CurrentContext].AuthInfo \in DOMAIN conf.AuthInfos
    /\ conf.Contexts[conf.CurrentContext].Cluster \in DOMAIN conf.Clusters

---------------------------------------------------------------------------
(* C1 *)

\* C1: on every form, buildCluster builds a cluster only after
\* ResolveIntegration has returned successfully on that form, and every
\* persisted cluster references, in one of its slots, a credential record
\* created by a successful resolution on the form that built it.
C1_BuildOnlyAfterResolution ==
    /\ \A f \in FormIds : hist[f].built => hist[f].resolvedOK
    /\ \A i \in 1..Len(clusters) :
          \E c \in hist[owner[i]].created : clusters[i][SlotOfTable(c[1])] = c[2]

---------------------------------------------------------------------------
(* C2 *)

\* C2: every cluster built and persisted has exactly one non-zero
\* credential-reference slot, the one of its candidate's mechanism, holding
\* the identifier of a record the resolver created; the other slots are zero.
C2_ExactlyOneSlot ==
    \A i \in 1..Len(clusters) :
        LET nonZero == {n \in SlotNames : clusters[i][n] # 0}
        IN  /\ Cardinality(nonZero) = 1
            /\ nonZero = {SlotOfMechanism(clusters[i].AuthMechanism)}
            /\ \E c \in hist[owner[i]].created :
                  /\ SlotOfTable(c[1]) \in nonZero
                  /\ clusters[i][SlotOfTable(c[1])] = c[2]

---------------------------------------------------------------------------
(* C3 *)

\* C3: ResolveIntegration on a candidate whose mechanism is none of the
\* seven known ones never returns success, leaves IntegrationID as it was
\* and persists no credential record.
C3_UnknownMechanismFails ==
    (LastCall("ResolveIntegration") /\ LastCandidate.AuthMechanism \notin Mechanisms)
        => /\ last.outcome # "ok"
           /\ LastForm.IntegrationID = last.pre.IntegrationID
           /\ IntegrationsUnchanged

---------------------------------------------------------------------------
(* C4 *)

\* the user entry ResolveIntegration reads from a form's parsed kubeconfig
AuthInfoOf(rcf) ==
    Lookup(rcf.RawConf.AuthInfos,
           rcf.RawConf.Contexts[rcf.RawConf.CurrentContext].AuthInfo)

\* one required field of a mechanism: its raw value, whether the override
\* supplies it, and the value the override stands for
Field(name, raw, override, value) ==
    [name |-> name, raw |-> raw, given |-> override # <<>>, value |-> value]

\* the required fields of the mechanisms that have some
RequiredFields(mech, auth, ov) ==
    CASE mech = "x509" ->
            {Field("ClientCertificateData", auth.ClientCertificateData,
                   ov.ClientCertData, DecodeString(ov.ClientCertData).bytes),
             Field("ClientKeyData", auth.ClientKeyData,
                   ov.ClientKeyData, DecodeString(ov.ClientKeyData).bytes)}
      [] mech = "bearer" ->
            {Field("Token", Bytes(auth.Token), ov.TokenData, Bytes(ov.TokenData))}
      [] mech = "basic" ->
            {Field("Username", Bytes(auth.Username), <<>>, <<>>),
             Field("Password", Bytes(auth.Password), <<>>, <<>>)}
      [] mech = "gcp" ->
            {Field("GCPKeyData", <<>>, ov.GCPKeyData, Bytes(ov.GCPKeyData))}
      [] mech = "aws" ->
            {Field("AWSClusterID", <<>>, ov.AWSClusterID, Bytes(ov.AWSClusterID)),
             Field("AWSAccessKeyID", <<>>, ov.AWSAccessKeyID, Bytes(ov.AWSAccessKeyID)),
             Field("AWSSecretAccessKey", <<>>, ov.AWSSecretAccessKey,
                   Bytes(ov.AWSSecretAccessKey))}

\* the table of the credential records of a mechanism
TableOfMechanism(mech) ==
    CASE mech \in {"x509", "bearer", "basic", "local"} -> "kube"
      [] OTHER -> mech

\* the last call was a ResolveIntegration that reached the resolver of a
\* mechanism in mechs, with the repository answering
Resolved(mechs) ==
    /\ LastCall("ResolveIntegration")
    /\ last.dbOK
    /\ LastCandidate.AuthMechanism \in mechs
    /\ LastForm.RawConf # Nil
    /\ HasContext(LastForm.RawConf)
    /\ AuthInfoOf(LastForm) # Nil

\* C4: for every mechanism with required fields: when each required field
\* is supplied by the raw auth data or the override, the resolution
\* persists a record that holds, field by field, the override value where
\* the override supplies it and the raw value where only the raw data
\* does; when some field is supplied by neither, the resolution fails with
\* an error and persists nothing.
C4_OverrideWinsRawOtherwise ==
    Resolved({"x509", "bearer", "basic", "gcp", "aws"}) =>
        LET mech == LastCandidate.AuthMechanism
            fields == RequiredFields(mech, AuthInfoOf(LastForm), LastForm.Resolver)
            table == Table(TableOfMechanism(mech))
        IN  IF \A fld \in fields : fld.given \/ Len(fld.raw) > 0
            THEN /\ last.outcome = "ok"
                 /\ LastForm.IntegrationID = Len(table)
                 /\ \A fld \in fields :
                       table[Len(table)][fld.name] =
                           IF fld.given THEN fld.value ELSE fld.raw
            ELSE /\ last.outcome = "error"
                 /\ IntegrationsUnchanged

---------------------------------------------------------------------------
(* C5 *)

\* the fields a record of an integration table must have non-empty
RequiredOf(call) ==
    CASE call.table = "kube" /\ call.rec.Mechanism = "x509" ->
            {"ClientCertificateData", "ClientKeyData"}
      [] call.table = "kube" /\ call.rec.Mechanism = "bearer" -> {"Token"}
      [] call.table = "kube" /\ call.rec.Mechanism = "basic" -> {"Username", "Password"}
      [] call.table = "kube" /\ call.rec.Mechanism = "local" -> {"Kubeconfig"}
      [] call.table = "gcp" -> {"GCPKeyData"}
      [] call.table = "aws" -> {"AWSClusterID", "AWSAccessKeyID", "AWSSecretAccessKey"}
      [] OTHER -> {}

\* C5: every record handed to a Create*Integration call, whether the call
\* then succeeds or fails, has all required fields of its mechanism
\* non-empty; and every record persisted is one that was handed to it.
C5_RequiredFieldsAtCreate ==
    /\ \A call \in createCalls :
          \A name \in RequiredOf(call) : Len(call.rec[name]) > 0
    /\ \A name \in {"kube", "oidc", "gcp", "aws"} :
          \A i \in 1..Len(Table(name)) :
              [table |-> name, rec |-> Table(name)[i]] \in createCalls

\* a GCP resolution handed its record to a Create call that failed
C5_Witness ==
    /\ LastCall("ResolveIntegration")
    /\ last.outcome = "error"
    /\ ~last.dbOK
    /\ \E call \in createCalls : call.table = "gcp"

---------------------------------------------------------------------------
(* C6 *)

\* some AWS override of the form is empty
AWSOverrideMissing(rcf) ==
    \/ rcf.Resolver.AWSClusterID = <<>>
    \/ rcf.Resolver.AWSAccessKeyID = <<>>
    \/ rcf.Resolver.AWSSecretAccessKey = <<>>

\* C6: for an AWS candidate the three credential fields come from the
\* overrides alone; when one of the overrides is empty ResolveIntegration
\* does not succeed (it returns an error once the kubeconfig's context is
\* found), leaves IntegrationID as it was and persists nothing; when it
\* succeeds the persisted record holds the three overrides.
C6_AWSNeedsAllOverrides ==
    (LastCall("ResolveIntegration") /\ LastCandidate.AuthMechanism = "aws") =>
        /\ AWSOverrideMissing(LastForm) =>
              /\ last.outcome # "ok"
              /\ (LastForm.RawConf # Nil /\ HasContext(LastForm.RawConf))
                    => last.outcome = "error"
              /\ LastForm.IntegrationID = last.pre.IntegrationID
              /\ IntegrationsUnchanged
              /\ \A call \in createCalls : call.table # "aws"
        /\ last.outcome = "ok" =>
              /\ LastForm.IntegrationID = Len(awsInts)
              /\ awsInts[Len(awsInts)].AWSClusterID = Bytes(LastForm.Resolver.AWSClusterID)
              /\ awsInts[Len(awsInts)].AWSAccessKeyID = Bytes(LastForm.Resolver.AWSAccessKeyID)
              /\ awsInts[Len(awsInts)].AWSSecretAccessKey =
                    Bytes(LastForm.Resolver.AWSSecretAccessKey)

\* an AWS resolution with only the secret access key missing returned an error
C6_Witness ==
    /\ LastCall("ResolveIntegration")
    /\ LastCandidate.AuthMechanism = "aws"
    /\ LastForm.Resolver.AWSClusterID # <<>>
    /\ LastForm.Resolver.AWSAccessKeyID # <<>>
    /\ LastForm.Resolver.AWSSecretAccessKey = <<>>
    /\ last.dbOK
    /\ last.outcome = "error"
    /\ LastForm.RawConf # Nil /\ HasContext(LastForm.RawConf)

---------------------------------------------------------------------------
(* C7 *)

\* the decoding the specification names sniffAndDecode: the decoded bytes
\* of a string matching the base64 pattern, the bytes of any other string
sniffAndDecode(s) == IF MatchString(s) THEN DecodeString(s).bytes ELSE Bytes(s)

\* the last call was a ResolveCluster whose buildCluster got as far as the
\* ClusterCAData override, with the server URL parsing and the repository
\* answering
BuiltWithCA ==
    /\ LastCall("ResolveCluster")
    /\ last.dbOK
    /\ LastForm.RawConf # Nil
    /\ HasEntries(LastForm.RawConf)
    /\ LastForm.Resolver.ClusterCAData # <<>>
    /\ LastForm.Resolver.ClusterHostname # <<>> => ~Parse(LastCandidate.Server).err

\* C7: each of the three places that decode an operator-supplied string
\* yields sniffAndDecode of it, and neither an error nor an empty value for
\* a string that does not match the base64 pattern: ToCluster for
\* CertificateAuthorityData, resolveX509 for the ClientCertData and
\* ClientKeyData overrides, buildCluster for the ClusterCAData override.
C7_DecodeSitesSniff ==
    /\ (ccfOut # Nil /\ (ccf.GCPIntegrationID # 0 \/ ccf.AWSIntegrationID # 0)) =>
          /\ ~ccfOut.err
          /\ ccfOut.CertificateAuthorityData = sniffAndDecode(ccf.CertificateAuthorityData)
    /\ (/\ Resolved({"x509"})
        /\ LastForm.Resolver.ClientCertData # <<>>
        /\ LastForm.Resolver.ClientKeyData # <<>>) =>
          /\ last.outcome = "ok"
          /\ kubeInts[Len(kubeInts)].ClientCertificateData =
                sniffAndDecode(LastForm.Resolver.ClientCertData)
          /\ kubeInts[Len(kubeInts)].ClientKeyData =
                sniffAndDecode(LastForm.Resolver.ClientKeyData)
    /\ BuiltWithCA =>
          /\ last.outcome = "ok"
          /\ clusters[Len(clusters)].CertificateAuthorityData =
                sniffAndDecode(LastForm.Resolver.ClusterCAData)

---------------------------------------------------------------------------
(* C8 *)

\* the cluster entry buildCluster reads from a form's parsed kubeconfig
ClusterOf(rcf) ==
    rcf.RawConf.Clusters[rcf.RawConf.Contexts[rcf.RawConf.CurrentContext].Cluster]

---------------------------------------------------------------------------
(* C9 *)

\* C9: a cluster that ResolveCluster persists has the candidate's server
\* URL when the ClusterHostname override is empty; otherwise its server
\* URL is the candidate's with the host alone replaced by the override:
\* the scheme before it and the port, path and query after it are kept.
C9_HostnameOverride ==
    (LastCall("ResolveCluster") /\ last.outcome = "ok") =>
        LET old == LastCandidate.Server
            new == clusters[Len(clusters)].Server
            hostname == LastForm.Resolver.ClusterHostname
        IN  IF hostname = <<>> THEN new = old
            ELSE new = SubSeq(old, 1, 2) \o hostname \o SubSeq(old, 4, Len(old))

\* a cluster was persisted with the host of a server URL that has a port,
\* a path and a query replaced
C9_Witness ==
    /\ LastCall("ResolveCluster")
    /\ last.outcome = "ok"
    /\ LastForm.Resolver.ClusterHostname = <<"new">>
    /\ LastCandidate.Server = <<"https", "://", "old", ":", "6443", "/api", "?x">>
    /\ clusters[Len(clusters)].Server = <<"https", "://", "new", ":", "6443", "/api", "?x">>

---------------------------------------------------------------------------
(* C10 *)

\* C10: on a candidate whose kubeconfig lacks the current context, or the
\* user or cluster the context names, ResolveIntegration and a
\* ResolveCluster that follows it return (an error or a no-op result)
\* rather than crash.
C10_NoCrashOnPartialConfig ==
    (/\ last.op \in {"ResolveIntegration", "ResolveCluster"}
     /\ last.op = "ResolveCluster" => LastForm.RawConf # Nil
     /\ ~GetRawConfigFromBytes(LastCandidate.Kubeconfig).err
     /\ ~HasEntries(GetRawConfigFromBytes(LastCandidate.Kubeconfig).conf))
        => last.outcome # "panic"

---------------------------------------------------------------------------
(* C11 *)

\* the integration tables
TableNames == {"kube", "oidc", "gcp", "aws"}

\* the credential records a cluster references: table and identifier
References(cluster) ==
    {<<t, cluster[SlotOfTable(t)]>> : t \in {u \in TableNames : cluster[SlotOfTable(u)] # 0}}

\* the clusters a form has persisted
ClustersOf(f) == {i \in 1..Len(clusters) : owner[i] = f}

\* C11: resolutions on separate forms, two for the same candidate
\* included, do not affect each other in any interleaving of their steps:
\* a successful ResolveIntegration persists one new record, whose
\* identifier no other form holds or has created; a cluster references
\* only records created by the form that built it; each successful
\* ResolveCluster persists one more cluster; nothing is deduplicated, so
\* the tables hold one record per successful resolution of every form.
C11_IndependentResolutions ==
    /\ \A f \in FormIds, g \in FormIds :
          f # g => hist[f].created \cap hist[g].created = {}
    /\ \A f \in FormIds :
          (forms[f] # Nil /\ forms[f].IntegrationID # 0) =>
              <<TableOfMechanism(candidates[forms[f].ClusterCandidateID].AuthMechanism),
                forms[f].IntegrationID>> \in hist[f].created
    /\ \A i \in 1..Len(clusters) : References(clusters[i]) \subseteq hist[owner[i]].created
    /\ (LastCall("ResolveIntegration") /\ last.outcome = "ok") =>
          /\ Len(kubeInts) + Len(oidcInts) + Len(gcpInts) + Len(awsInts)
                = last.pre.kube + last.pre.oidc + last.pre.gcp + last.pre.aws + 1
          /\ LastForm.IntegrationID # last.pre.IntegrationID
    /\ (LastCall("ResolveCluster") /\ last.outcome = "ok") =>
          /\ Len(clusters) = last.pre.clusters + 1
          /\ owner[Len(clusters)] = last.form

\* both forms, given the same candidate and the same overrides, have each
\* persisted a credential record and a cluster of their own
C11_Witness ==
    /\ forms[1] # Nil /\ forms[2] # Nil
    /\ forms[1].Resolver = forms[2].Resolver
    /\ forms[1].IntegrationID # 0 /\ forms[2].IntegrationID # 0
    /\ forms[1].IntegrationID # forms[2].IntegrationID
    /\ \E i \in ClustersOf(1), j \in ClustersOf(2) :
          /\ References(clusters[i]) = hist[1].created
          /\ References(clusters[j]) = hist[2].created
          /\ References(clusters[i]) # References(clusters[j])

---------------------------------------------------------------------------
(* C12 *)

\* C12: every cluster descriptor constructed holds at most one non-zero
\* credential reference; the cluster ToCluster returns has at most one of
\* GCPIntegrationID and AWSIntegrationID non-zero, in the slot of its
\* AuthMechanism, whatever the form's two integration ids are, and with
\* both ids zero ToCluster returns an error and no cluster.
C12_ToClusterOneSlot ==
    /\ \A i \in 1..Len(clusters) :
          Cardinality({n \in SlotNames : clusters[i][n] # 0}) <= 1
    /\ ccfOut # Nil =>
          /\ (ccf.GCPIntegrationID = 0 /\ ccf.AWSIntegrationID = 0) => ccfOut.err
          /\ ~ccfOut.err =>
                LET nonZero == {n \in SlotNames : ccfOut[n] # 0}
                IN  /\ Cardinality(nonZero) <= 1
                    /\ nonZero \subseteq {SlotOfMechanism(ccfOut.AuthMechanism)}

---------------------------------------------------------------------------
(* C13 *)

\* the provider config of the user the last call resolved
LastProvider == AuthInfoOf(LastForm).AuthProvider

\* the bytes a provider config holds for a field: those under the field's
\* key, none when the key is absent
ProviderBytes(config, fld) ==
    IF OIDCKeys[fld] \in DOMAIN config THEN Bytes(config[OIDCKeys[fld]]) ELSE <<>>

---------------------------------------------------------------------------
(* C14 *)

\* C14: Update upgrades the release when ReleaseName is non-empty and
\* returns the "release not set" error only when it is empty; Create
\* installs only when Chart is set and returns an error when it is nil;
\* on these error paths the Helm agent receives no call.
C14_WriterGuards ==
    /\ wout.op = "Update" =>
          IF w.ReleaseName # <<>>
          THEN /\ wout.err # "release not set"
               /\ Len(agent) = Len(wout.pre) + 1
               /\ agent[Len(agent)].op = "UpgradeReleaseByValues"
               /\ agent[Len(agent)].Name = w.ReleaseName
          ELSE /\ wout.err = "release not set"
               /\ agent = wout.pre
    /\ wout.op = "Create" =>
          IF w.Chart # Nil
          THEN /\ wout.err # "chart must be set"
               /\ Len(agent) = Len(wout.pre) + 1
               /\ agent[Len(agent)].op = "InstallChart"
          ELSE /\ wout.err = "chart must be set"
               /\ agent = wout.pre

---------------------------------------------------------------------------
(* C15 *)

\* the records a form has created are in their tables
CreatedRemain(f) == \A c \in hist[f].created : c[2] \in 1..Len(Table(c[1]))

\* no cluster references a record the form has created
Unreferenced(f) ==
    \A c \in hist[f].created, i \in 1..Len(clusters) :
        clusters[i][SlotOfTable(c[1])] # c[2]

\* C15: nothing is rolled back between the two persistence steps: when
\* ResolveCluster fails on a resolved form (CA override that does not
\* decode, server URL that does not parse, CreateCluster error) no cluster
\* is persisted, the credential records stay as they were, persisted, and
\* while the form has persisted no cluster no cluster references them;
\* a further successful ResolveIntegration on the form persists one more
\* record beside the earlier one and replaces IntegrationID with the new
\* record's identifier.
C15_NoRollback ==
    /\ \A f \in FormIds : CreatedRemain(f)
    /\ (LastCall("ResolveCluster") /\ last.outcome = "error"
            /\ hist[last.form].resolvedOK) =>
          /\ Len(clusters) = last.pre.clusters
          /\ IntegrationsUnchanged
          /\ LastForm.IntegrationID = last.pre.IntegrationID
          /\ ClustersOf(last.form) = {} => Unreferenced(last.form)
    /\ (LastCall("ResolveIntegration") /\ last.outcome = "ok"
            /\ last.pre.IntegrationID # 0) =>
          LET table == Table(TableOfMechanism(LastCandidate.AuthMechanism))
          IN  /\ Len(kubeInts) + Len(oidcInts) + Len(gcpInts) + Len(awsInts)
                    = last.pre.kube + last.pre.oidc + last.pre.gcp + last.pre.aws + 1
              /\ LastForm.IntegrationID = Len(table)
              /\ LastForm.IntegrationID # last.pre.IntegrationID
              /\ last.pre.IntegrationID \in 1..Len(table)

\* a form resolved, then failed in ResolveCluster at CreateCluster, then
\* resolved again: two credential records, no cluster, IntegrationID that
\* of the second record
C15_Witness ==
    /\ LastCall("ResolveIntegration")
    /\ last.outcome = "ok"
    /\ last.pre.IntegrationID # 0
    /\ hist[last.form].built
    /\ clusters = <<>>
    /\ Cardinality(hist[last.form].created) = 2
    /\ LastForm.IntegrationID = last.pre.IntegrationID + 1

====
